---- MODULE Spec2Model ----
(***************************************************************************)
(* Query safety validation of the Pocket Network MCP server:               *)
(* src/src/handlers/transaction-handlers.ts.                               *)
(*                                                                         *)
(* The validators (checkBlockQuery, checkLogQuery, validateRPCCall,        *)
(* validateNaturalLanguageQuery) are operators over JavaScript values;     *)
(* the tool handlers (handleTransactionTool, handleBlockchainTool) are     *)
(* actions over a set of concurrently running invocations.                 *)
(***************************************************************************)
EXTENDS Integers, Sequences, FiniteSets, TLC

(***************************************************************************)
(* Bounds of the model.                                                    *)
(***************************************************************************)
\* numeric block bounds of the log filters are 0..MaxBlockNum
MaxBlockNum == 12
\* number of tool invocations that may be in flight together
NumInv == 2
\* the calls of the probe that are followed
MaxProbeCalls == 2

(***************************************************************************)
(* JavaScript values.  A value is a record [t |-> type tag, v |-> payload].*)
(* Strings are TLA+ strings; Chars gives the characters of each string the *)
(* model uses, for the operations that read a string character by          *)
(* character (parseInt, startsWith, RegExp.test).                          *)
(***************************************************************************)
Undefined == [t |-> "undefined", v |-> 0]
Null == [t |-> "null", v |-> 0]
NaN == [t |-> "NaN", v |-> 0]
Bool(b) == [t |-> "boolean", v |-> b]
Num(n) == [t |-> "number", v |-> n]
BigInt(n) == [t |-> "bigint", v |-> n]
Str(s) == [t |-> "string", v |-> s]
Arr(seq) == [t |-> "array", v |-> seq]
Obj(fields) == [t |-> "object", v |-> fields]
\* the value of a thrown TypeError, for expressions that throw
Throw == [t |-> "throw", v |-> 0]

\* typeof x
TypeOf(x) ==
    CASE x.t \in {"number", "NaN"} -> "number"
      [] x.t \in {"null", "array", "object"} -> "object"
      [] OTHER -> x.t

\* ToBoolean(x): the truthiness used by !x, x && y, x || y
Truthy(x) ==
    CASE x.t \in {"undefined", "null", "NaN"} -> FALSE
      [] x.t = "boolean" -> x.v
      [] x.t \in {"number", "bigint"} -> x.v # 0
      [] x.t = "string" -> x.v # ""
      [] OTHER -> TRUE

\* a === b, for values that are not objects
StrictEq(a, b) == a.t = b.t /\ a.v = b.v

\* a || b
Or(a, b) == IF Truthy(a) THEN a ELSE b

\* params[k] of a JavaScript array (0-based), undefined past its end
At(params, k) == IF k + 1 <= Len(params) THEN params[k + 1] ELSE Undefined

\* x.name: a property read of a non-nullish value
Get(x, name) ==
    IF x.t = "object" /\ name \in DOMAIN x.v THEN x.v[name] ELSE Undefined

\* x?.name
GetOpt(x, name) ==
    IF x.t \in {"undefined", "null"} THEN Undefined ELSE Get(x, name)

Chars ==
    ("" :> <<>>) @@
    ("latest" :> <<"l", "a", "t", "e", "s", "t">>) @@
    ("earliest" :> <<"e", "a", "r", "l", "i", "e", "s", "t">>) @@
    ("pending" :> <<"p", "e", "n", "d", "i", "n", "g">>) @@
    ("zz" :> <<"z", "z">>) @@
    ("0x0" :> <<"0", "x", "0">>) @@
    ("0x1" :> <<"0", "x", "1">>) @@
    ("0x5" :> <<"0", "x", "5">>) @@
    ("0xa" :> <<"0", "x", "a">>) @@
    ("0xc" :> <<"0", "x", "c">>) @@
    ("0x14" :> <<"0", "x", "1", "4">>) @@
    ("0" :> <<"0">>) @@
    ("1" :> <<"1">>) @@
    ("5" :> <<"5">>) @@
    ("10" :> <<"1", "0">>) @@
    ("12" :> <<"1", "2">>) @@
    ("20" :> <<"2", "0">>) @@
    ("undefined" :> <<"u", "n", "d", "e", "f", "i", "n", "e", "d">>) @@
    ("eth_getBlockByNumber" :> <<"e", "t", "h", "_", "g", "e", "t", "B", "l", "o", "c", "k", "B", "y", "N", "u", "m", "b", "e", "r">>) @@
    ("eth_getBlockByHash" :> <<"e", "t", "h", "_", "g", "e", "t", "B", "l", "o", "c", "k", "B", "y", "H", "a", "s", "h">>) @@
    ("eth_getLogs" :> <<"e", "t", "h", "_", "g", "e", "t", "L", "o", "g", "s">>) @@
    ("eth_getTransactionReceipt" :> <<"e", "t", "h", "_", "g", "e", "t", "T", "r", "a", "n", "s", "a", "c", "t", "i", "o", "n", "R", "e", "c", "e", "i", "p", "t">>) @@
    ("debug_traceTransaction" :> <<"d", "e", "b", "u", "g", "_", "t", "r", "a", "c", "e", "T", "r", "a", "n", "s", "a", "c", "t", "i", "o", "n">>) @@
    ("trace_block" :> <<"t", "r", "a", "c", "e", "_", "b", "l", "o", "c", "k">>) @@
    ("trace_transaction" :> <<"t", "r", "a", "c", "e", "_", "t", "r", "a", "n", "s", "a", "c", "t", "i", "o", "n">>) @@
    ("eth_blockNumber" :> <<"e", "t", "h", "_", "b", "l", "o", "c", "k", "N", "u", "m", "b", "e", "r">>) @@
    ("eth_getBalance" :> <<"e", "t", "h", "_", "g", "e", "t", "B", "a", "l", "a", "n", "c", "e">>) @@
    ("eth_getBlockTransactionCountByNumber" :> <<"e", "t", "h", "_", "g", "e", "t", "B", "l", "o", "c", "k", "T", "r", "a", "n", "s", "a", "c", "t", "i", "o", "n", "C", "o", "u", "n", "t", "B", "y", "N", "u", "m", "b", "e", "r">>) @@
    ("eth_getlogs" :> <<"e", "t", "h", "_", "g", "e", "t", "l", "o", "g", "s">>) @@
    ("eth_getLogs " :> <<"e", "t", "h", "_", "g", "e", "t", "L", "o", "g", "s", " ">>) @@
    ("get the latest height for ethereum" :> <<"g", "e", "t", " ", "t", "h", "e", " ", "l", "a", "t", "e", "s", "t", " ", "h", "e", "i", "g", "h", "t", " ", "f", "o", "r", " ", "e", "t", "h", "e", "r", "e", "u", "m">>) @@
    ("What was the last transaction on vitalik.eth?" :> <<"W", "h", "a", "t", " ", "w", "a", "s", " ", "t", "h", "e", " ", "l", "a", "s", "t", " ", "t", "r", "a", "n", "s", "a", "c", "t", "i", "o", "n", " ", "o", "n", " ", "v", "i", "t", "a", "l", "i", "k", ".", "e", "t", "h", "?">>) @@
    ("list all logs for this contract" :> <<"l", "i", "s", "t", " ", "a", "l", "l", " ", "l", "o", "g", "s", " ", "f", "o", "r", " ", "t", "h", "i", "s", " ", "c", "o", "n", "t", "r", "a", "c", "t">>) @@
    ("show TRANSACTION HISTORY and list all of it" :> <<"s", "h", "o", "w", " ", "T", "R", "A", "N", "S", "A", "C", "T", "I", "O", "N", " ", "H", "I", "S", "T", "O", "R", "Y", " ", "a", "n", "d", " ", "l", "i", "s", "t", " ", "a", "l", "l", " ", "o", "f", " ", "i", "t">>) @@
    ("get all transactions in block 5" :> <<"g", "e", "t", " ", "a", "l", "l", " ", "t", "r", "a", "n", "s", "a", "c", "t", "i", "o", "n", "s", " ", "i", "n", " ", "b", "l", "o", "c", "k", " ", "5">>) @@
    ("fetch all balances" :> <<"f", "e", "t", "c", "h", " ", "a", "l", "l", " ", "b", "a", "l", "a", "n", "c", "e", "s">>) @@
    ("every transaction today" :> <<"e", "v", "e", "r", "y", " ", "t", "r", "a", "n", "s", "a", "c", "t", "i", "o", "n", " ", "t", "o", "d", "a", "y">>) @@
    ("install the blogs plugin" :> <<"i", "n", "s", "t", "a", "l", "l", " ", "t", "h", "e", " ", "b", "l", "o", "g", "s", " ", "p", "l", "u", "g", "i", "n">>) @@
    ("get\ntransaction for address" :> <<"g", "e", "t", "\n", "t", "r", "a", "n", "s", "a", "c", "t", "i", "o", "n", " ", "f", "o", "r", " ", "a", "d", "d", "r", "e", "s", "s">>) @@
    ("recent\ntransactions" :> <<"r", "e", "c", "e", "n", "t", "\n", "t", "r", "a", "n", "s", "a", "c", "t", "i", "o", "n", "s">>) @@
    ("blacklist allowed callers" :> <<"b", "l", "a", "c", "k", "l", "i", "s", "t", " ", "a", "l", "l", "o", "w", "e", "d", " ", "c", "a", "l", "l", "e", "r", "s">>) @@
    ("get transactions for address 0xabc" :> <<"g", "e", "t", " ", "t", "r", "a", "n", "s", "a", "c", "t", "i", "o", "n", "s", " ", "f", "o", "r", " ", "a", "d", "d", "r", "e", "s", "s", " ", "0", "x", "a", "b", "c">>) @@
    ("recent transactions of bob" :> <<"r", "e", "c", "e", "n", "t", " ", "t", "r", "a", "n", "s", "a", "c", "t", "i", "o", "n", "s", " ", "o", "f", " ", "b", "o", "b">>) @@
    ("latest transaction on address 0xabc" :> <<"l", "a", "t", "e", "s", "t", " ", "t", "r", "a", "n", "s", "a", "c", "t", "i", "o", "n", " ", "o", "n", " ", "a", "d", "d", "r", "e", "s", "s", " ", "0", "x", "a", "b", "c">>) @@
    ("address 0xabc transactions" :> <<"a", "d", "d", "r", "e", "s", "s", " ", "0", "x", "a", "b", "c", " ", "t", "r", "a", "n", "s", "a", "c", "t", "i", "o", "n", "s">>) @@
    ("List All tokens" :> <<"L", "i", "s", "t", " ", "A", "l", "l", " ", "t", "o", "k", "e", "n", "s">>) @@
    ("ETH_GETLOGS" :> <<"E", "T", "H", "_", "G", "E", "T", "L", "O", "G", "S">>) @@
    ("Trace_block" :> <<"T", "r", "a", "c", "e", "_", "b", "l", "o", "c", "k">>) @@
    ("trace_blocks" :> <<"t", "r", "a", "c", "e", "_", "b", "l", "o", "c", "k", "s">>) @@
    ("eth_getBlock" :> <<"e", "t", "h", "_", "g", "e", "t", "B", "l", "o", "c", "k">>) @@
    ("get" :> <<"g", "e", "t">>) @@
    ("transaction" :> <<"t", "r", "a", "n", "s", "a", "c", "t", "i", "o", "n">>) @@
    ("for" :> <<"f", "o", "r">>) @@
    ("address" :> <<"a", "d", "d", "r", "e", "s", "s">>) @@
    ("history" :> <<"h", "i", "s", "t", "o", "r", "y">>) @@
    ("recent" :> <<"r", "e", "c", "e", "n", "t">>) @@
    ("transactions" :> <<"t", "r", "a", "n", "s", "a", "c", "t", "i", "o", "n", "s">>) @@
    ("last" :> <<"l", "a", "s", "t">>) @@
    ("on" :> <<"o", "n">>) @@
    ("get all transactions" :> <<"g", "e", "t", " ", "a", "l", "l", " ", "t", "r", "a", "n", "s", "a", "c", "t", "i", "o", "n", "s">>) @@
    ("list all" :> <<"l", "i", "s", "t", " ", "a", "l", "l">>) @@
    ("fetch all" :> <<"f", "e", "t", "c", "h", " ", "a", "l", "l">>) @@
    ("every transaction" :> <<"e", "v", "e", "r", "y", " ", "t", "r", "a", "n", "s", "a", "c", "t", "i", "o", "n">>) @@
    ("all" :> <<"a", "l", "l">>) @@
    ("logs" :> <<"l", "o", "g", "s">>)

\* the value of each character that is a digit in some radix up to 36
DigitTable ==
    ("0" :> 0) @@ ("1" :> 1) @@ ("2" :> 2) @@ ("3" :> 3) @@ ("4" :> 4) @@ ("5" :> 5) @@
    ("6" :> 6) @@ ("7" :> 7) @@ ("8" :> 8) @@ ("9" :> 9) @@ ("a" :> 10) @@ ("b" :> 11) @@
    ("c" :> 12) @@ ("d" :> 13) @@ ("e" :> 14) @@ ("f" :> 15) @@ ("g" :> 16) @@ ("h" :> 17) @@
    ("i" :> 18) @@ ("j" :> 19) @@ ("k" :> 20) @@ ("l" :> 21) @@ ("m" :> 22) @@ ("n" :> 23) @@
    ("o" :> 24) @@ ("p" :> 25) @@ ("q" :> 26) @@ ("r" :> 27) @@ ("s" :> 28) @@ ("t" :> 29) @@
    ("u" :> 30) @@ ("v" :> 31) @@ ("w" :> 32) @@ ("x" :> 33) @@ ("y" :> 34) @@ ("z" :> 35) @@
    ("A" :> 10) @@ ("B" :> 11) @@ ("C" :> 12) @@ ("D" :> 13) @@ ("E" :> 14) @@ ("F" :> 15) @@
    ("G" :> 16) @@ ("H" :> 17) @@ ("I" :> 18) @@ ("J" :> 19) @@ ("K" :> 20) @@ ("L" :> 21) @@
    ("M" :> 22) @@ ("N" :> 23) @@ ("O" :> 24) @@ ("P" :> 25) @@ ("Q" :> 26) @@ ("R" :> 27) @@
    ("S" :> 28) @@ ("T" :> 29) @@ ("U" :> 30) @@ ("V" :> 31) @@ ("W" :> 32) @@ ("X" :> 33) @@
    ("Y" :> 34) @@ ("Z" :> 35)

\* the value of character c as a digit (0..35), 36 when it is no digit
DigitValue(c) == IF c \in DOMAIN DigitTable THEN DigitTable[c] ELSE 36

\* the lower-case form of each upper-case letter
LowerCase ==
    ("A" :> "a") @@ ("B" :> "b") @@ ("C" :> "c") @@ ("D" :> "d") @@ ("E" :> "e") @@ ("F" :> "f") @@
    ("G" :> "g") @@ ("H" :> "h") @@ ("I" :> "i") @@ ("J" :> "j") @@ ("K" :> "k") @@ ("L" :> "l") @@
    ("M" :> "m") @@ ("N" :> "n") @@ ("O" :> "o") @@ ("P" :> "p") @@ ("Q" :> "q") @@ ("R" :> "r") @@
    ("S" :> "s") @@ ("T" :> "t") @@ ("U" :> "u") @@ ("V" :> "v") @@ ("W" :> "w") @@ ("X" :> "x") @@
    ("Y" :> "y") @@ ("Z" :> "z")

IsWhiteSpace(c) == c \in {" ", "\t", "\n", "\r"}

RECURSIVE TrimStart(_)
TrimStart(cs) ==
    IF cs # <<>> /\ IsWhiteSpace(Head(cs)) THEN TrimStart(Tail(cs)) ELSE cs

\* the longest prefix of cs made of digits of the radix, as <<value, count>>
RECURSIVE ParseDigits(_, _, _, _)
ParseDigits(cs, radix, acc, count) ==
    IF cs # <<>> /\ DigitValue(Head(cs)) < radix
    THEN ParseDigits(Tail(cs), radix, acc * radix + DigitValue(Head(cs)), count + 1)
    ELSE <<acc, count>>

\* parseInt(s, radix) of ECMAScript, for a string s and radix 10 or 16
parseInt(s, radix) ==
    LET trimmed == TrimStart(Chars[s])
        negative == trimmed # <<>> /\ Head(trimmed) = "-"
        unsigned == IF trimmed # <<>> /\ Head(trimmed) \in {"-", "+"}
                    THEN Tail(trimmed) ELSE trimmed
        digits == IF /\ radix = 16
                     /\ Len(unsigned) >= 2
                     /\ unsigned[1] = "0"
                     /\ unsigned[2] \in {"x", "X"}
                  THEN Tail(Tail(unsigned)) ELSE unsigned
        parsed == ParseDigits(digits, radix, 0, 0)
    IN  IF parsed[2] = 0 THEN NaN
        ELSE Num(IF negative THEN 0 - parsed[1] ELSE parsed[1])

\* ToNumber(x) for the operands of the binary minus
ToNumber(x) ==
    CASE x.t = "number" -> x
      [] x.t = "boolean" -> Num(IF x.v THEN 1 ELSE 0)
      [] x.t = "null" -> Num(0)
      [] OTHER -> NaN

\* a - b: BigInt operands cannot be mixed with other types (TypeError)
Minus(a, b) ==
    IF a.t = "bigint" /\ b.t = "bigint" THEN BigInt(a.v - b.v)
    ELSE IF a.t = "bigint" \/ b.t = "bigint" THEN Throw
    ELSE LET x == ToNumber(a)
             y == ToNumber(b)
         IN  IF x.t = "NaN" \/ y.t = "NaN" THEN NaN ELSE Num(x.v - y.v)

\* a > n for a number n: false when a is NaN
GreaterThan(a, n) == a.t \in {"number", "bigint"} /\ a.v > n

\* s.startsWith(prefix)
startsWith(s, prefix) ==
    /\ Len(Chars[s]) >= Len(Chars[prefix])
    /\ SubSeq(Chars[s], 1, Len(Chars[prefix])) = Chars[prefix]

(***************************************************************************)
(* SafetyCheckResult, SafetyConfig and the fixed tables.                   *)
(***************************************************************************)
\* { safe: true }
SafeResult == [safe |-> TRUE]
\* { safe: false, reason, suggestion }
UnsafeResult(reason, suggestion) ==
    [safe |-> FALSE, reason |-> reason, suggestion |-> suggestion]

DEFAULT_SAFETY_CONFIG ==
    [maxTransactionsPerBlock |-> 10,
     maxBlockRange |-> 10,
     maxResponseSizeEstimate |-> 500,
     allowBlocksWithTransactions |-> FALSE]

\* the set without its last entry
DANGEROUS_METHODS_Short ==
    {"eth_getBlockByNumber",
     "eth_getBlockByHash",
     "eth_getLogs",
     "eth_getTransactionReceipt",
     "debug_traceTransaction",
     "trace_block"}

DANGEROUS_METHODS ==
    {"eth_getBlockByNumber",
     "eth_getBlockByHash",
     "eth_getLogs",
     "eth_getTransactionReceipt",
     "debug_traceTransaction",
     "trace_block",
     "trace_transaction"}

\* each pattern is the list of the literals that its .* separate; all
\* patterns carry the i flag
TRANSACTION_HISTORY_PATTERNS_NoLast ==
    << <<"get", "transaction", "for", "address">>,
       <<"transaction", "history">>,
       <<"recent", "transactions">>,
       <<"latest", "transaction", "on", "address">>,
       <<"address", "transactions">> >>

TRANSACTION_HISTORY_PATTERNS ==
    << <<"get", "transaction", "for", "address">>,
       <<"transaction", "history">>,
       <<"recent", "transactions">>,
       <<"last", "transaction">>,
       <<"latest", "transaction", "on", "address">>,
       <<"address", "transactions">> >>

dangerousPatterns_NoLogs ==
    << <<"get all transactions">>,
       <<"list all">>,
       <<"fetch all">>,
       <<"every transaction">> >>

dangerousPatterns ==
    << <<"get all transactions">>,
       <<"list all">>,
       <<"fetch all">>,
       <<"every transaction">>,
       <<"all", "logs">> >>

(***************************************************************************)
(* RegExp.prototype.test for patterns  lit1.*lit2.* ... litN  with flag i. *)
(***************************************************************************)
\* String(x), the conversion test() applies to its argument
ToStr(x) == IF x.t = "string" THEN x.v ELSE "undefined"

\* the i flag: letters compare by their lower-case form
ToLower(c) == IF c \in DOMAIN LowerCase THEN LowerCase[c] ELSE c

\* literal lit occurs in cs at position p
LitAt(lit, cs, p) ==
    /\ p >= 1
    /\ p + Len(lit) - 1 <= Len(cs)
    /\ \A k \in 1..Len(lit) : ToLower(cs[p + k - 1]) = ToLower(lit[k])

\* . matches every character but a line terminator
DotMatches(cs, from, to) ==
    \A k \in from..to : cs[k] \notin {"\n", "\r"}

\* literals k.. of the pattern match in cs, the k-th one starting at p or
\* later after a run of . characters
RECURSIVE MatchRest(_, _, _, _)
MatchRest(lits, k, cs, p) ==
    \/ k > Len(lits)
    \/ \E q \in p..Len(cs) :
          /\ DotMatches(cs, p, q - 1)
          /\ LitAt(Chars[lits[k]], cs, q)
          /\ MatchRest(lits, k + 1, cs, q + Len(Chars[lits[k]]))

\* pattern.test(s)
RegExpTest(lits, s) ==
    \E p \in 1..Len(Chars[s]) :
        /\ LitAt(Chars[lits[1]], Chars[s], p)
        /\ MatchRest(lits, 2, Chars[s], p + Len(Chars[lits[1]]))

(***************************************************************************)
(* The validators.                                                         *)
(***************************************************************************)
PatternFlags_Global == {"g", "i"}

\* the flags of the RegExp objects of TRANSACTION_HISTORY_PATTERNS
PatternFlags == {"i"}

\* the lastIndex of each of these objects when the module is loaded
FreshLastIndex == [k \in 1..Len(TRANSACTION_HISTORY_PATTERNS) |-> 0]

\* the positions after index from where a match of the pattern starts
MatchStarts(lits, cs, from) ==
    {p \in (from + 1)..Len(cs) :
        /\ LitAt(Chars[lits[1]], cs, p)
        /\ MatchRest(lits, 2, cs, p + Len(Chars[lits[1]]))}

\* the end index of the match of literals k.. from position p on: every .*
\* is greedy and takes the longest run that lets the rest match
RECURSIVE MatchEnd(_, _, _, _)
MatchEnd(lits, k, cs, p) ==
    IF k > Len(lits) THEN p - 1
    ELSE LET qs == {q \in p..Len(cs) :
                      /\ DotMatches(cs, p, q - 1)
                      /\ LitAt(Chars[lits[k]], cs, q)
                      /\ MatchRest(lits, k + 1, cs, q + Len(Chars[lits[k]]))}
             last == CHOOSE q \in qs : \A r \in qs : r <= q
         IN  MatchEnd(lits, k + 1, cs, last + Len(Chars[lits[k]]))

\* RegExpBuiltinExec behind pattern.test(s) on a RegExp object whose
\* lastIndex is li: whether it matches, and the lastIndex it leaves.  Only a
\* global pattern starts at lastIndex and writes it.
RegExpBuiltinExec(lits, flags, s, li) ==
    LET cs == Chars[s]
        global == "g" \in flags
        starts == MatchStarts(lits, cs, IF global THEN li ELSE 0)
        first == CHOOSE p \in starts : \A q \in starts : p <= q
    IN  IF starts = {}
        THEN [matched |-> FALSE, lastIndex |-> IF global THEN 0 ELSE li]
        ELSE [matched |-> TRUE,
              lastIndex |-> IF global
                            THEN MatchEnd(lits, 2, cs, first + Len(Chars[lits[1]]))
                            ELSE li]

\* TRANSACTION_HISTORY_PATTERNS.some(pattern => pattern.test(query)) from
\* pattern k on, with li the lastIndex of the patterns: the patterns are
\* tested in order up to the first that matches
RECURSIVE TestHistoryPatterns(_, _, _)
TestHistoryPatterns(k, query, li) ==
    IF k > Len(TRANSACTION_HISTORY_PATTERNS)
    THEN [found |-> FALSE, lastIndex |-> li]
    ELSE LET r == RegExpBuiltinExec(TRANSACTION_HISTORY_PATTERNS[k],
                                    PatternFlags, ToStr(query), li[k])
             after == [li EXCEPT ![k] = r.lastIndex]
         IN  IF r.matched
             THEN [found |-> TRUE, lastIndex |-> after]
             ELSE TestHistoryPatterns(k + 1, query, after)

\* isTransactionHistoryQuery(query) with the patterns' lastIndex at li:
\* what it returns and the lastIndex it leaves
isTransactionHistoryQueryOn(query, li) == TestHistoryPatterns(1, query, li)

\* isTransactionHistoryQuery(query) on the freshly loaded module
isTransactionHistoryQuery(query) ==
    isTransactionHistoryQueryOn(query, FreshLastIndex).found

isDangerousMethod_IgnoreCase(method) ==
    /\ method.t = "string"
    /\ \E d \in DANGEROUS_METHODS :
          /\ Len(Chars[d]) = Len(Chars[method.v])
          /\ LitAt(Chars[d], Chars[method.v], 1)

isDangerousMethod(method) ==
    method.t = "string" /\ method.v \in DANGEROUS_METHODS

\* checkBlockQuery that honours allowBlocksWithTransactions: the second,
\* unconditional check is gone
checkBlockQuery_FlagHonoured(method, params, config) ==
    IF \/ StrictEq(method, Str("eth_getBlockByNumber"))
       \/ StrictEq(method, Str("eth_getBlockByHash"))
    THEN LET includeTransactions == StrictEq(At(params, 1), Bool(TRUE))
         IN  IF includeTransactions /\ ~config.allowBlocksWithTransactions
             THEN UnsafeResult(
                    "Requesting blocks with full transactions is disabled to prevent context overflow",
                    "Use eth_getBlockByNumber with false parameter to get block without transactions, or query specific transactions by hash")
             ELSE SafeResult
    ELSE SafeResult

\* checkBlockQuery whose blocked verdicts carry no suggestion
checkBlockQuery_NoSuggestion(method, params, config) ==
    IF \/ StrictEq(method, Str("eth_getBlockByNumber"))
       \/ StrictEq(method, Str("eth_getBlockByHash"))
    THEN LET includeTransactions == StrictEq(At(params, 1), Bool(TRUE))
         IN  IF includeTransactions /\ ~config.allowBlocksWithTransactions
             THEN [safe |-> FALSE,
                   reason |-> "Requesting blocks with full transactions is disabled to prevent context overflow"]
             ELSE IF includeTransactions
             THEN [safe |-> FALSE,
                   reason |-> "Blocks can contain 100+ transactions, causing session crashes"]
             ELSE SafeResult
    ELSE SafeResult

\* checkBlockQuery without its test of the method name
checkBlockQuery_AnyMethod(method, params, config) ==
    LET includeTransactions == StrictEq(At(params, 1), Bool(TRUE))
    IN  IF includeTransactions /\ ~config.allowBlocksWithTransactions
        THEN UnsafeResult(
               "Requesting blocks with full transactions is disabled to prevent context overflow",
               "Use eth_getBlockByNumber with false parameter to get block without transactions, or query specific transactions by hash")
        ELSE IF includeTransactions
        THEN UnsafeResult(
               "Blocks can contain 100+ transactions, causing session crashes",
               "Query specific transactions by hash instead, or use a block explorer API")
        ELSE SafeResult

checkBlockQuery(method, params, config) ==
    IF \/ StrictEq(method, Str("eth_getBlockByNumber"))
       \/ StrictEq(method, Str("eth_getBlockByHash"))
    THEN LET includeTransactions == StrictEq(At(params, 1), Bool(TRUE))
         IN  IF includeTransactions /\ ~config.allowBlocksWithTransactions
             THEN UnsafeResult(
                    "Requesting blocks with full transactions is disabled to prevent context overflow",
                    "Use eth_getBlockByNumber with false parameter to get block without transactions, or query specific transactions by hash")
             ELSE IF includeTransactions
             THEN UnsafeResult(
                    "Blocks can contain 100+ transactions, causing session crashes",
                    "Query specific transactions by hash instead, or use a block explorer API")
             ELSE SafeResult
    ELSE SafeResult

\* checkLogQuery that returns safe as soon as the range check has passed,
\* and looks for address and topics only when the range check was skipped
checkLogQuery_RangeFirst(params, config) ==
    IF ~Truthy(At(params, 0)) THEN SafeResult
    ELSE
    LET filter == At(params, 0)
        fromBlock == Get(filter, "fromBlock")
        toBlock == Or(Get(filter, "toBlock"), Str("latest"))
        checkRange == /\ Truthy(fromBlock)
                      /\ Truthy(toBlock)
                      /\ ~StrictEq(toBlock, Str("latest"))
        from == IF TypeOf(fromBlock) = "string" THEN parseInt(fromBlock.v, 16)
                ELSE fromBlock
        to == IF TypeOf(toBlock) = "string" THEN parseInt(toBlock.v, 16)
              ELSE toBlock
        range == Minus(to, from)
    IN  IF checkRange /\ range.t = "throw"
        THEN UnsafeResult("Unable to validate block range safety",
                          "Specify explicit numeric block ranges")
        ELSE IF checkRange /\ GreaterThan(range, config.maxBlockRange)
        THEN UnsafeResult(
               "Block range " \o ToString(range.v) \o " exceeds maximum "
                   \o ToString(config.maxBlockRange),
               "Reduce the block range or use pagination")
        ELSE IF checkRange THEN SafeResult
        ELSE IF ~Truthy(Get(filter, "address")) /\ ~Truthy(Get(filter, "topics"))
        THEN UnsafeResult(
               "Unrestricted log queries can return massive amounts of data",
               "Add address or topic filters to limit results")
        ELSE SafeResult

\* checkLogQuery without its try and catch: a TypeError of the subtraction
\* leaves the function
checkLogQuery_NoTry(params, config) ==
    IF ~Truthy(At(params, 0)) THEN SafeResult
    ELSE
    LET filter == At(params, 0)
        fromBlock == Get(filter, "fromBlock")
        toBlock == Or(Get(filter, "toBlock"), Str("latest"))
        checkRange == /\ Truthy(fromBlock)
                      /\ Truthy(toBlock)
                      /\ ~StrictEq(toBlock, Str("latest"))
        from == IF TypeOf(fromBlock) = "string" THEN parseInt(fromBlock.v, 16)
                ELSE fromBlock
        to == IF TypeOf(toBlock) = "string" THEN parseInt(toBlock.v, 16)
              ELSE toBlock
        range == Minus(to, from)
    IN  IF checkRange /\ range.t = "throw"
        THEN Throw
        ELSE IF checkRange /\ GreaterThan(range, config.maxBlockRange)
        THEN UnsafeResult(
               "Block range " \o ToString(range.v) \o " exceeds maximum "
                   \o ToString(config.maxBlockRange),
               "Reduce the block range or use pagination")
        ELSE IF ~Truthy(Get(filter, "address")) /\ ~Truthy(Get(filter, "topics"))
        THEN UnsafeResult(
               "Unrestricted log queries can return massive amounts of data",
               "Add address or topic filters to limit results")
        ELSE SafeResult

checkLogQuery(params, config) ==
    IF ~Truthy(At(params, 0)) THEN SafeResult
    ELSE
    LET filter == At(params, 0)
        fromBlock == Get(filter, "fromBlock")
        toBlock == Or(Get(filter, "toBlock"), Str("latest"))
        checkRange == /\ Truthy(fromBlock)
                      /\ Truthy(toBlock)
                      /\ ~StrictEq(toBlock, Str("latest"))
        from == IF TypeOf(fromBlock) = "string" THEN parseInt(fromBlock.v, 16)
                ELSE fromBlock
        to == IF TypeOf(toBlock) = "string" THEN parseInt(toBlock.v, 16)
              ELSE toBlock
        range == Minus(to, from)
    IN  IF checkRange /\ range.t = "throw"
        THEN UnsafeResult("Unable to validate block range safety",
                          "Specify explicit numeric block ranges")
        ELSE IF checkRange /\ GreaterThan(range, config.maxBlockRange)
        THEN UnsafeResult(
               "Block range " \o ToString(range.v) \o " exceeds maximum "
                   \o ToString(config.maxBlockRange),
               "Reduce the block range or use pagination")
        ELSE IF ~Truthy(Get(filter, "address")) /\ ~Truthy(Get(filter, "topics"))
        THEN UnsafeResult(
               "Unrestricted log queries can return massive amounts of data",
               "Add address or topic filters to limit results")
        ELSE SafeResult

\* validateRPCCall that blocks every method it has no validator for,
\* listed as dangerous or not
validateRPCCall_DefaultDeny(blockchain, method, params, config) ==
    IF isDangerousMethod(method) /\ startsWith(method.v, "eth_getBlock")
    THEN checkBlockQuery(method, params, config)
    ELSE IF StrictEq(method, Str("eth_getLogs"))
    THEN checkLogQuery(params, config)
    ELSE UnsafeResult(
           "Method " \o ToStr(method) \o " can return extremely large responses",
           "Use safer alternatives or fetch data from a block explorer API")

validateRPCCall(blockchain, method, params, config) ==
    IF isDangerousMethod(method)
    THEN IF startsWith(method.v, "eth_getBlock")
         THEN checkBlockQuery(method, params, config)
         ELSE IF StrictEq(method, Str("eth_getLogs"))
         THEN checkLogQuery(params, config)
         ELSE UnsafeResult(
                "Method " \o method.v \o " can return extremely large responses",
                "Use safer alternatives or fetch data from a block explorer API")
    ELSE SafeResult

validateNaturalLanguageQueryOn_UnboundedFirst(query, config, li) ==
    LET history == isTransactionHistoryQueryOn(query, li)
    IN  [verdict |->
            IF \E i \in 1..Len(dangerousPatterns) :
                  RegExpTest(dangerousPatterns[i], ToStr(query))
            THEN UnsafeResult("Query requests potentially unbounded data",
                              "Add specific limits, filters, or time ranges to your query")
            ELSE IF history.found
            THEN UnsafeResult(
                   "Transaction history queries require fetching multiple blocks with full transaction data, which causes context overflow",
                   "Instead:\n  * Query a specific transaction by hash if you know it\n  * Use a block explorer API (Etherscan, etc.) for transaction history\n  * Ask for current balance or state instead of history")
            ELSE SafeResult,
         lastIndex |-> history.lastIndex]

\* validateNaturalLanguageQuery(query, config) with the lastIndex of the
\* history patterns at li: its verdict and the lastIndex it leaves.  The
\* dangerousPatterns are new RegExp objects in every call.
validateNaturalLanguageQueryOn(query, config, li) ==
    LET history == isTransactionHistoryQueryOn(query, li)
    IN  [verdict |->
            IF history.found
            THEN UnsafeResult(
                   "Transaction history queries require fetching multiple blocks with full transaction data, which causes context overflow",
                   "Instead:\n  * Query a specific transaction by hash if you know it\n  * Use a block explorer API (Etherscan, etc.) for transaction history\n  * Ask for current balance or state instead of history")
            ELSE IF \E i \in 1..Len(dangerousPatterns) :
                       RegExpTest(dangerousPatterns[i], ToStr(query))
            THEN UnsafeResult("Query requests potentially unbounded data",
                              "Add specific limits, filters, or time ranges to your query")
            ELSE SafeResult,
         lastIndex |-> history.lastIndex]

\* validateNaturalLanguageQuery(query, config) on the freshly loaded module
validateNaturalLanguageQuery(query, config) ==
    validateNaturalLanguageQueryOn(query, config, FreshLastIndex).verdict

(***************************************************************************)
(* Inputs of the validators.                                               *)
(***************************************************************************)
\* a second block-range ceiling, next to the default one
AltBlockRange == 3

\* a second value for maxTransactionsPerBlock and for maxResponseSizeEstimate
AltTransactionsPerBlock == 1
AltResponseSizeEstimate == 1

\* a function object, such as the methods every object inherits
Function(name) == [t |-> "function", v |-> name]

\* the properties an object literal inherits from Object.prototype
ObjectPrototype ==
    {"constructor", "toString", "toLocaleString", "valueOf",
     "hasOwnProperty", "isPrototypeOf", "propertyIsEnumerable"}

\* the object literal estimates of estimateResponseSize: its own properties
estimates(params) ==
    [m \in {"eth_getBlockByNumber", "eth_getBlockByHash", "eth_getLogs",
             "eth_getTransactionReceipt", "debug_traceTransaction",
             "trace_block"} |->
        CASE m \in {"eth_getBlockByNumber", "eth_getBlockByHash"} ->
               IF StrictEq(At(params, 1), Bool(TRUE)) THEN 500 ELSE 5
          [] m = "eth_getLogs" -> 200
          [] m = "eth_getTransactionReceipt" -> 10
          [] m = "debug_traceTransaction" -> 1000
          [] m = "trace_block" -> 2000]

\* estimates[method]: an own property, else an inherited one, else undefined
EstimateOf(params, method) ==
    LET key == ToStr(method)
    IN  IF key \in DOMAIN estimates(params) THEN Num(estimates(params)[key])
        ELSE IF key \in ObjectPrototype THEN Function(key)
        ELSE Undefined

estimateResponseSize(method, params) ==
    Or(EstimateOf(params, method), Num(5))

Configs ==
    {[DEFAULT_SAFETY_CONFIG EXCEPT !.maxBlockRange = r,
                                   !.allowBlocksWithTransactions = a] :
        r \in {DEFAULT_SAFETY_CONFIG.maxBlockRange, AltBlockRange},
        a \in BOOLEAN}

BlockStrings ==
    {"latest", "earliest", "pending", "", "zz",
     "0x0", "0x5", "0xa", "0x14",
     "0", "5", "10", "20"}

BlockValues ==
    {Undefined, Null, BigInt(1), BigInt(MaxBlockNum)}
        \cup {Num(n) : n \in 0..MaxBlockNum}
        \cup {Str(s) : s \in BlockStrings}

AddressValues == {Undefined, Str(""), Str("0xabc")}
TopicsValues == {Undefined, Arr(<<Str("0xddf2")>>)}

Filter(fromBlock, toBlock, address, topics) ==
    Obj([fromBlock |-> fromBlock, toBlock |-> toBlock,
         address |-> address, topics |-> topics])

Filters ==
    {Filter(f, t, a, p) :
        f \in BlockValues, t \in BlockValues,
        a \in AddressValues, p \in TopicsValues}

\* what params[0] of a log query can be: a filter object, nothing, or a
\* value that is no object
FilterValues == Filters \cup {Undefined, Null, Num(7), Str("all")}

\* a few filters for the calls that do not look at them
SampleFilters ==
    {Filter(Num(1), Num(MaxBlockNum), Str("0xabc"), Undefined),
     Filter(Num(1), Num(2), Str("0xabc"), Undefined),
     Filter(Str("0x0"), Str("latest"), Undefined, Undefined),
     Undefined}

FlagValues == {Undefined, Null, Bool(TRUE), Bool(FALSE), Str("true"), Num(1)}

\* params of a block query: [block], [block, flag]
BlockParamLists ==
    {<< >>, <<Str("latest")>>}
        \cup {<<b, f>> : b \in {Str("latest"), Str("0x5")}, f \in FlagValues}

LogParamLists == {<<f>> : f \in FilterValues}

Methods ==
    {Str("eth_getBlockByNumber"), Str("eth_getBlockByHash"),
     Str("eth_getLogs"), Str("eth_getTransactionReceipt"),
     Str("debug_traceTransaction"), Str("trace_block"),
     Str("trace_transaction")}
        \cup {Str("eth_blockNumber"), Str("eth_getBalance"),
              Str("eth_getBlockTransactionCountByNumber"),
              Str("eth_getlogs"), Str("eth_getLogs "), Str("ETH_GETLOGS"),
              Str("Trace_block"), Str("trace_blocks"), Undefined}

Blockchains == {Str("ethereum"), Str("nochain")}

Queries ==
    {Str("get the latest height for ethereum"),
     Str("What was the last transaction on vitalik.eth?"),
     Str("list all logs for this contract"),
     Str("show TRANSACTION HISTORY and list all of it"),
     Str("get all transactions in block 5"),
     Str("fetch all balances"),
     Str("every transaction today"),
     Str("install the blogs plugin"),
     Str("get\ntransaction for address"),
     Str("recent\ntransactions"),
     Str("blacklist allowed callers"),
     Str("get transactions for address 0xabc"),
     Str("recent transactions of bob"),
     Str("latest transaction on address 0xabc"),
     Str("address 0xabc transactions"),
     Str("List All tokens"),
     Str(""),
     Undefined}

\* method names for estimateResponseSize: those of Methods and names that
\* every object literal inherits
EstimateMethods ==
    Methods \cup {Str("constructor"), Str("toString"), Str("valueOf")}

ValidatorCalls ==
    {[fn |-> "checkBlockQuery", method |-> m, params |-> p, config |-> c] :
        m \in Methods, p \in BlockParamLists, c \in Configs}
    \cup
    {[fn |-> "checkLogQuery", params |-> p, config |-> c] :
        p \in LogParamLists \cup {<< >>}, c \in Configs}
    \cup
    {[fn |-> "validateRPCCall", blockchain |-> b, method |-> m,
      params |-> p, config |-> c] :
        b \in Blockchains, m \in Methods,
        p \in BlockParamLists \cup {<<f>> : f \in SampleFilters},
        c \in Configs}
    \cup
    {[fn |-> "validateRPCCall", blockchain |-> Str("ethereum"),
      method |-> Str("eth_getLogs"), params |-> p, config |-> c] :
        p \in LogParamLists, c \in Configs}
    \cup
    {[fn |-> "isDangerousMethod", method |-> m] : m \in Methods}
    \cup
    {[fn |-> "estimateResponseSize", method |-> m, params |-> p] :
        m \in EstimateMethods, p \in BlockParamLists}
    \cup
    {[fn |-> "validateNaturalLanguageQuery", query |-> q, config |-> c] :
        q \in Queries, c \in Configs}

(***************************************************************************)
(* State.                                                                  *)
(***************************************************************************)
VARIABLES
    call,         \* the validator call in hand (validator specification)
    result,       \* what it returned, Undefined before it returns
    pc,           \* pc[i]: where invocation i of a tool handler stands
    tool,         \* tool[i]: the tool name of invocation i
    args,         \* args[i]: its arguments
    safetyCheck,  \* safetyCheck[i]: the verdict its safety check returned
    dispatched,   \* dispatched[i]: the service calls it has made, in order
    response,     \* response[i]: what the handler returned
    lastIndex,    \* lastIndex[k] of pattern k of TRANSACTION_HISTORY_PATTERNS
    probe,        \* the call whose verdicts are compared (repeated calls)
    firstVerdict, \* the verdict of the first call of probe, Undefined before
    probeCalls    \* the number of calls of probe so far

vars ==
    <<call, result, pc, tool, args, safetyCheck, dispatched, response,
      lastIndex, probe, firstVerdict, probeCalls>>
validatorVars == <<call, result, lastIndex, probe, firstVerdict, probeCalls>>
handlerVars == <<pc, tool, args, safetyCheck, dispatched, response>>

Inv == 1..NumInv

NoCall == [fn |-> "none"]

HandlersIdle ==
    /\ pc = [i \in Inv |-> "idle"]
    /\ tool = [i \in Inv |-> "none"]
    /\ args = [i \in Inv |-> Undefined]
    /\ safetyCheck = [i \in Inv |-> Undefined]
    /\ dispatched = [i \in Inv |-> << >>]
    /\ response = [i \in Inv |-> Undefined]

(***************************************************************************)
(* The validators called directly: a call is drawn, then it returns.       *)
(***************************************************************************)
\* the module is loaded and no call of the validators is followed
ModuleLoaded ==
    /\ lastIndex = FreshLastIndex
    /\ probe = NoCall
    /\ firstVerdict = Undefined
    /\ probeCalls = 0

InitValidators ==
    /\ call \in ValidatorCalls
    /\ result = Undefined
    /\ ModuleLoaded
    /\ HandlersIdle

CallCheckBlockQuery ==
    /\ call.fn = "checkBlockQuery"
    /\ result = Undefined
    /\ result' = checkBlockQuery(call.method, call.params, call.config)
    /\ UNCHANGED <<call, lastIndex, probe, firstVerdict, probeCalls, handlerVars>>

\* checkLogQuery that writes its default into the filter it was given:
\* filter.toBlock = filter.toBlock || 'latest'
CallCheckLogQuery_WritesDefault ==
    /\ call.fn = "checkLogQuery"
    /\ result = Undefined
    /\ result' = checkLogQuery(call.params, call.config)
    /\ call' = IF Truthy(At(call.params, 0)) /\ At(call.params, 0).t = "object"
               THEN [call EXCEPT !.params[1].v.toBlock = Or(@, Str("latest"))]
               ELSE call
    /\ UNCHANGED <<lastIndex, probe, firstVerdict, probeCalls, handlerVars>>

CallCheckLogQuery ==
    /\ call.fn = "checkLogQuery"
    /\ result = Undefined
    /\ result' = checkLogQuery(call.params, call.config)
    /\ UNCHANGED <<call, lastIndex, probe, firstVerdict, probeCalls, handlerVars>>

CallValidateRPCCall ==
    /\ call.fn = "validateRPCCall"
    /\ result = Undefined
    /\ result' = validateRPCCall(call.blockchain, call.method, call.params,
                                 call.config)
    /\ UNCHANGED <<call, lastIndex, probe, firstVerdict, probeCalls, handlerVars>>

CallIsDangerousMethod ==
    /\ call.fn = "isDangerousMethod"
    /\ result = Undefined
    /\ result' = Bool(isDangerousMethod(call.method))
    /\ UNCHANGED <<call, lastIndex, probe, firstVerdict, probeCalls, handlerVars>>

CallValidateNaturalLanguageQuery ==
    /\ call.fn = "validateNaturalLanguageQuery"
    /\ result = Undefined
    /\ \E r \in {validateNaturalLanguageQueryOn(call.query, call.config,
                                                lastIndex)} :
           /\ result' = r.verdict
           /\ lastIndex' = r.lastIndex
    /\ UNCHANGED <<call, probe, firstVerdict, probeCalls, handlerVars>>

CallEstimateResponseSize ==
    /\ call.fn = "estimateResponseSize"
    /\ result = Undefined
    /\ result' = estimateResponseSize(call.method, call.params)
    /\ UNCHANGED <<call, lastIndex, probe, firstVerdict, probeCalls, handlerVars>>

NextValidators ==
    \/ CallCheckBlockQuery
    \/ CallCheckLogQuery
    \/ CallValidateRPCCall
    \/ CallValidateNaturalLanguageQuery
    \/ CallIsDangerousMethod
    \/ CallEstimateResponseSize

SpecValidators == InitValidators /\ [][NextValidators]_vars

(***************************************************************************)
(* The tool handlers.  An invocation runs without interruption up to its   *)
(* await of a service call, and again from the service's answer to its     *)
(* return; invocations interleave at these points only.                    *)
(***************************************************************************)
\* the service catalogue behind getServiceByBlockchain
ServiceCatalog == {<<"ethereum", "mainnet">>}

\* blockchainService.getServiceByBlockchain(blockchain, network)
getServiceByBlockchain(blockchain, network) ==
    IF /\ blockchain.t = "string"
       /\ network.t = "string"
       /\ <<blockchain.v, network.v>> \in ServiceCatalog
    THEN Obj([id |-> Str(blockchain.v \o "-" \o network.v)])
    ELSE Undefined

\* the text of a blocked response, as the parts of its template literal
\* (the title without its leading sign character)
BlockedText(title, check) ==
    <<title, "\n\n",
      "Reason: ", check.reason, "\n\n",
      "Suggestion: ", check.suggestion, "\n\n",
      "This protection prevents session crashes from large responses.">>

BlockedResponse(title, check) ==
    [content |-> <<[type |-> "text", text |-> BlockedText(title, check)]>>,
     isError |-> TRUE]

\* JSON.stringify(result, null, 2) of a service result
StringifyResult(success) ==
    IF success THEN "{\n  \"success\": true\n}" ELSE "{\n  \"success\": false\n}"

ResultResponse_NoNegation(success) ==
    [content |-> <<[type |-> "text", text |-> <<StringifyResult(success)>>]>>,
     isError |-> success]

ResultResponse(success) ==
    [content |-> <<[type |-> "text", text |-> <<StringifyResult(success)>>]>>,
     isError |-> ~success]

NotFoundResponse(blockchain, network) ==
    [content |-> <<[type |-> "text",
                    text |-> <<"Blockchain service not found: ",
                               ToStr(blockchain), " (", ToStr(network), ")">>]>>,
     isError |-> TRUE]

ServiceCall(name, arguments) == [service |-> name, arguments |-> arguments]

\* arguments of the tools
GetBlockDetailsArgs ==
    {Obj([blockchain |-> Str("ethereum"), blockNumber |-> Str("latest"),
          includeTransactions |-> f]) :
        f \in FlagValues \ {Null}}

HandlerFilters ==
    {Undefined,
     Filter(Undefined, Undefined, Undefined, Undefined),
     Filter(Num(1), Num(MaxBlockNum), Str("0xabc"), Undefined),
     Filter(Num(1), Num(2), Str("0xabc"), Undefined),
     Filter(Num(0), Num(MaxBlockNum), Str("0xabc"), Undefined),
     Filter(BigInt(1), Num(2), Str("0xabc"), Undefined),
     Filter(Str("0x5"), Str("latest"), Undefined, Undefined)}

SearchLogsArgs ==
    {Obj([blockchain |-> Str("ethereum"), filter |-> f]) : f \in HandlerFilters}

QueryBlockchainArgs ==
    {Obj([query |-> q]) :
        q \in {Str("get the latest height for ethereum"),
               Str("What was the last transaction on vitalik.eth?"),
               Str("list all logs for this contract")}}
        \cup {Undefined}

RpcSamples ==
    {<<"eth_blockNumber", Undefined>>,
     <<"eth_getBlockByNumber", Arr(<<Str("latest"), Bool(FALSE)>>)>>,
     <<"eth_getBlockByNumber", Arr(<<Str("latest"), Bool(TRUE)>>)>>,
     <<"eth_getLogs", Arr(<<Filter(Num(1), Num(2), Str("0xabc"), Undefined)>>)>>,
     <<"eth_getLogs", Arr(<<Filter(Str("0x0"), Str("latest"), Undefined, Undefined)>>)>>,
     <<"eth_getTransactionReceipt", Arr(<<Str("0xabc")>>)>>}

CallRpcMethodArgs ==
    {Obj([blockchain |-> b, method |-> Str(s[1]), params |-> s[2]]) :
        b \in Blockchains, s \in RpcSamples}
        \cup {Undefined}

Init ==
    /\ call = NoCall
    /\ result = Undefined
    /\ ModuleLoaded
    /\ HandlersIdle

\* handleTransactionTool, case 'get_block_details', up to its await
HandleGetBlockDetails(i, a) ==
    /\ pc[i] = "idle"
    /\ LET blockchain == GetOpt(a, "blockchain")
           blockNumber == GetOpt(a, "blockNumber")
           includeTransactions == Or(GetOpt(a, "includeTransactions"), Bool(FALSE))
           network == Or(GetOpt(a, "network"), Str("mainnet"))
       IN  \E check \in {checkBlockQuery(Str("eth_getBlockByNumber"),
                                       <<blockNumber, includeTransactions>>,
                                       DEFAULT_SAFETY_CONFIG)} :
           /\ tool' = [tool EXCEPT ![i] = "get_block_details"]
           /\ args' = [args EXCEPT ![i] = a]
           /\ safetyCheck' = [safetyCheck EXCEPT ![i] = check]
           /\ IF ~check.safe
              THEN /\ response' = [response EXCEPT ![i] =
                          BlockedResponse("UNSAFE BLOCK QUERY BLOCKED", check)]
                   /\ pc' = [pc EXCEPT ![i] = "done"]
                   /\ UNCHANGED dispatched
              ELSE /\ dispatched' = [dispatched EXCEPT ![i] = Append(@,
                          ServiceCall("getBlockDetails",
                              <<blockchain, blockNumber, includeTransactions, network>>))]
                   /\ pc' = [pc EXCEPT ![i] = "await"]
                   /\ UNCHANGED response
    /\ UNCHANGED validatorVars

\* handleTransactionTool, case 'search_logs', up to its await
HandleSearchLogs(i, a) ==
    /\ pc[i] = "idle"
    /\ LET blockchain == GetOpt(a, "blockchain")
           filter == GetOpt(a, "filter")
           network == Or(GetOpt(a, "network"), Str("mainnet"))
       IN  \E check \in {checkLogQuery(<<filter>>, DEFAULT_SAFETY_CONFIG)} :
           /\ tool' = [tool EXCEPT ![i] = "search_logs"]
           /\ args' = [args EXCEPT ![i] = a]
           /\ IF check = Throw
              THEN \* an exception of the validator rejects the handler
                   /\ pc' = [pc EXCEPT ![i] = "rejected"]
                   /\ UNCHANGED <<safetyCheck, dispatched, response>>
              ELSE /\ safetyCheck' = [safetyCheck EXCEPT ![i] = check]
                   /\ IF ~check.safe
                      THEN /\ response' = [response EXCEPT ![i] =
                                  BlockedResponse("UNSAFE LOG QUERY BLOCKED", check)]
                           /\ pc' = [pc EXCEPT ![i] = "done"]
                           /\ UNCHANGED dispatched
                      ELSE /\ dispatched' = [dispatched EXCEPT ![i] = Append(@,
                                  ServiceCall("searchLogs", <<blockchain, filter, network>>))]
                           /\ pc' = [pc EXCEPT ![i] = "await"]
                           /\ UNCHANGED response
    /\ UNCHANGED validatorVars

\* the query_blockchain case without the return of its safety check: the
\* blocked response is built and the query is executed all the same
HandleQueryBlockchain_NoReturn(i, a) ==
    /\ pc[i] = "idle"
    /\ LET query == GetOpt(a, "query")
       IN  \E r \in {validateNaturalLanguageQueryOn(query,
                           DEFAULT_SAFETY_CONFIG, lastIndex)} :
           /\ tool' = [tool EXCEPT ![i] = "query_blockchain"]
           /\ args' = [args EXCEPT ![i] = a]
           /\ safetyCheck' = [safetyCheck EXCEPT ![i] = r.verdict]
           /\ lastIndex' = r.lastIndex
           /\ dispatched' = [dispatched EXCEPT ![i] = Append(@,
                  ServiceCall("executeQuery", <<query>>))]
           /\ pc' = [pc EXCEPT ![i] = "await"]
           /\ UNCHANGED response
    /\ UNCHANGED <<call, result, probe, firstVerdict, probeCalls>>

\* handleBlockchainTool, case 'query_blockchain', up to its await
HandleQueryBlockchain(i, a) ==
    /\ pc[i] = "idle"
    /\ LET query == GetOpt(a, "query")
       IN  \E r \in {validateNaturalLanguageQueryOn(query,
                           DEFAULT_SAFETY_CONFIG, lastIndex)} :
           /\ tool' = [tool EXCEPT ![i] = "query_blockchain"]
           /\ args' = [args EXCEPT ![i] = a]
           /\ safetyCheck' = [safetyCheck EXCEPT ![i] = r.verdict]
           /\ lastIndex' = r.lastIndex
           /\ IF ~r.verdict.safe
              THEN /\ response' = [response EXCEPT ![i] =
                          BlockedResponse("UNSAFE QUERY BLOCKED", r.verdict)]
                   /\ pc' = [pc EXCEPT ![i] = "done"]
                   /\ UNCHANGED dispatched
              ELSE /\ dispatched' = [dispatched EXCEPT ![i] = Append(@,
                          ServiceCall("executeQuery", <<query>>))]
                   /\ pc' = [pc EXCEPT ![i] = "await"]
                   /\ UNCHANGED response
    /\ UNCHANGED <<call, result, probe, firstVerdict, probeCalls>>

\* the call_rpc_method case with the service lookup ahead of the safety
\* check: an unknown blockchain is answered before anything is validated
HandleCallRpcMethod_LookupFirst(i, a) ==
    /\ pc[i] = "idle"
    /\ LET blockchain == GetOpt(a, "blockchain")
           method == GetOpt(a, "method")
           params == Or(GetOpt(a, "params"), Arr(<< >>))
           network == Or(GetOpt(a, "network"), Str("mainnet"))
           service == getServiceByBlockchain(blockchain, network)
       IN  \E check \in {validateRPCCall(blockchain, method, params.v,
                                       DEFAULT_SAFETY_CONFIG)} :
           /\ tool' = [tool EXCEPT ![i] = "call_rpc_method"]
           /\ args' = [args EXCEPT ![i] = a]
           /\ IF ~Truthy(service)
              THEN /\ response' = [response EXCEPT ![i] =
                          NotFoundResponse(blockchain, network)]
                   /\ pc' = [pc EXCEPT ![i] = "done"]
                   /\ UNCHANGED <<safetyCheck, dispatched>>
              ELSE /\ safetyCheck' = [safetyCheck EXCEPT ![i] = check]
                   /\ IF ~check.safe
                      THEN /\ response' = [response EXCEPT ![i] =
                                  BlockedResponse("UNSAFE RPC CALL BLOCKED", check)]
                           /\ pc' = [pc EXCEPT ![i] = "done"]
                           /\ UNCHANGED dispatched
                      ELSE /\ dispatched' = [dispatched EXCEPT ![i] = Append(@,
                                  ServiceCall("callRPCMethod",
                                      <<Get(service, "id"), method, params>>))]
                           /\ pc' = [pc EXCEPT ![i] = "await"]
                           /\ UNCHANGED response
    /\ UNCHANGED validatorVars

\* handleBlockchainTool, case 'call_rpc_method', up to its await
HandleCallRpcMethod(i, a) ==
    /\ pc[i] = "idle"
    /\ LET blockchain == GetOpt(a, "blockchain")
           method == GetOpt(a, "method")
           params == Or(GetOpt(a, "params"), Arr(<< >>))
           network == Or(GetOpt(a, "network"), Str("mainnet"))
           service == getServiceByBlockchain(blockchain, network)
       IN  \E check \in {validateRPCCall(blockchain, method, params.v,
                                       DEFAULT_SAFETY_CONFIG)} :
           /\ tool' = [tool EXCEPT ![i] = "call_rpc_method"]
           /\ args' = [args EXCEPT ![i] = a]
           /\ IF check = Throw
              THEN \* an exception of the validator rejects the handler
                   /\ pc' = [pc EXCEPT ![i] = "rejected"]
                   /\ UNCHANGED <<safetyCheck, dispatched, response>>
              ELSE /\ safetyCheck' = [safetyCheck EXCEPT ![i] = check]
                   /\ IF ~check.safe
                      THEN /\ response' = [response EXCEPT ![i] =
                                  BlockedResponse("UNSAFE RPC CALL BLOCKED", check)]
                           /\ pc' = [pc EXCEPT ![i] = "done"]
                           /\ UNCHANGED dispatched
                      ELSE IF ~Truthy(service)
                      THEN /\ response' = [response EXCEPT ![i] =
                                  NotFoundResponse(blockchain, network)]
                           /\ pc' = [pc EXCEPT ![i] = "done"]
                           /\ UNCHANGED dispatched
                      ELSE /\ dispatched' = [dispatched EXCEPT ![i] = Append(@,
                                  ServiceCall("callRPCMethod",
                                      <<Get(service, "id"), method, params>>))]
                           /\ pc' = [pc EXCEPT ![i] = "await"]
                           /\ UNCHANGED response
    /\ UNCHANGED validatorVars

\* the awaited service call resolves with result.success = success and the
\* handler returns the result
ServiceResolves(i, success) ==
    /\ pc[i] = "await"
    /\ response' = [response EXCEPT ![i] = ResultResponse(success)]
    /\ pc' = [pc EXCEPT ![i] = "done"]
    /\ UNCHANGED <<tool, args, safetyCheck, dispatched, validatorVars>>

\* the awaited service call rejects and the handler's promise rejects too
ServiceRejects(i) ==
    /\ pc[i] = "await"
    /\ pc' = [pc EXCEPT ![i] = "rejected"]
    /\ UNCHANGED <<tool, args, safetyCheck, dispatched, response, validatorVars>>

\* the caller takes the outcome; the invocation is over
Finish(i) ==
    /\ pc[i] \in {"done", "rejected"}
    /\ pc' = [pc EXCEPT ![i] = "idle"]
    /\ tool' = [tool EXCEPT ![i] = "none"]
    /\ args' = [args EXCEPT ![i] = Undefined]
    /\ safetyCheck' = [safetyCheck EXCEPT ![i] = Undefined]
    /\ dispatched' = [dispatched EXCEPT ![i] = << >>]
    /\ response' = [response EXCEPT ![i] = Undefined]
    /\ UNCHANGED validatorVars

Next ==
    \/ \E i \in Inv : \E a \in GetBlockDetailsArgs :
           HandleGetBlockDetails(i, a)
    \/ \E i \in Inv : \E a \in SearchLogsArgs :
           HandleSearchLogs(i, a)
    \/ \E i \in Inv : \E a \in QueryBlockchainArgs :
           HandleQueryBlockchain(i, a)
    \/ \E i \in Inv : \E a \in CallRpcMethodArgs :
           HandleCallRpcMethod(i, a)
    \/ \E i \in Inv : \E success \in BOOLEAN : ServiceResolves(i, success)
    \/ \E i \in Inv : ServiceRejects(i)
    \/ \E i \in Inv : Finish(i)

Spec == Init /\ [][Next]_vars

(***************************************************************************)
(* Repeated calls of the validators in one loaded module: any call of      *)
(* RepeatCalls may follow any other, and the verdicts of one of them, the  *)
(* probe, are followed from its first call on.                             *)
(***************************************************************************)
RepeatCalls ==
    {[fn |-> "checkBlockQuery", method |-> Str("eth_getBlockByNumber"),
      params |-> <<Str("latest"), f>>, config |-> DEFAULT_SAFETY_CONFIG] :
        f \in {Bool(TRUE), Bool(FALSE)}}
    \cup
    {[fn |-> "checkLogQuery", params |-> p, config |-> DEFAULT_SAFETY_CONFIG] :
        p \in {<<Filter(Num(1), Num(2), Str("0xabc"), Undefined)>>,
               <<Filter(Num(1), Num(12), Str("0xabc"), Undefined)>>,
               <<Filter(Str("0x0"), Str("latest"), Undefined, Undefined)>>,
               << >>}}
    \cup
    {[fn |-> "validateRPCCall", blockchain |-> Str("ethereum"),
      method |-> Str(s[1]), params |-> s[2], config |-> DEFAULT_SAFETY_CONFIG] :
        s \in {<<"eth_blockNumber", << >> >>,
               <<"eth_getTransactionReceipt", <<Str("0xabc")>> >>,
               <<"eth_getBlockByNumber", <<Str("latest"), Bool(TRUE)>> >>}}
    \cup
    {[fn |-> "validateNaturalLanguageQuery", query |-> q,
      config |-> DEFAULT_SAFETY_CONFIG] :
        q \in {Str("What was the last transaction on vitalik.eth?"),
               Str("show TRANSACTION HISTORY and list all of it"),
               Str("recent transactions of bob"),
               Str("list all logs for this contract"),
               Str("get the latest height for ethereum")}}

InitRepeat ==
    /\ call = NoCall
    /\ result = Undefined
    /\ lastIndex = FreshLastIndex
    /\ probe \in RepeatCalls
    /\ firstVerdict = Undefined
    /\ probeCalls = 0
    /\ HandlersIdle

\* call c returns verdict: it is the call in hand now, and the first verdict
\* of the probe is kept
Returns(c, verdict) ==
    /\ c = probe => probeCalls < MaxProbeCalls
    /\ probeCalls' = IF c = probe THEN probeCalls + 1 ELSE probeCalls
    /\ call' = c
    /\ result' = verdict
    /\ firstVerdict' = IF c = probe /\ firstVerdict = Undefined
                       THEN verdict
                       ELSE firstVerdict
    /\ UNCHANGED <<probe, handlerVars>>

RepeatCheckBlockQuery(c) ==
    /\ c.fn = "checkBlockQuery"
    /\ Returns(c, checkBlockQuery(c.method, c.params, c.config))
    /\ UNCHANGED lastIndex

RepeatCheckLogQuery(c) ==
    /\ c.fn = "checkLogQuery"
    /\ Returns(c, checkLogQuery(c.params, c.config))
    /\ UNCHANGED lastIndex

RepeatValidateRPCCall(c) ==
    /\ c.fn = "validateRPCCall"
    /\ Returns(c, validateRPCCall(c.blockchain, c.method, c.params, c.config))
    /\ UNCHANGED lastIndex

RepeatValidateNaturalLanguageQuery(c) ==
    /\ c.fn = "validateNaturalLanguageQuery"
    /\ \E r \in {validateNaturalLanguageQueryOn(c.query, c.config, lastIndex)} :
           /\ Returns(c, r.verdict)
           /\ lastIndex' = r.lastIndex

NextRepeat ==
    \/ \E c \in RepeatCalls : RepeatCheckBlockQuery(c)
    \/ \E c \in RepeatCalls : RepeatCheckLogQuery(c)
    \/ \E c \in RepeatCalls : RepeatValidateRPCCall(c)
    \/ \E c \in RepeatCalls : RepeatValidateNaturalLanguageQuery(c)

SpecRepeat == InitRepeat /\ [][NextRepeat]_vars

(***************************************************************************)
(* Properties.                                                             *)
(***************************************************************************)
\* the validator call in hand has returned
Returned == "safe" \in DOMAIN result

\* invocation i has a verdict, and it is unsafe
Blocked(i) == "safe" \in DOMAIN safetyCheck[i] /\ ~safetyCheck[i].safe

\* string s is one of the parts of the text of response r
TextContains(r, s) ==
    \E k \in 1..Len(r.content[1].text) : r.content[1].text[k] = s

GatedTools ==
    {"get_block_details", "search_logs", "query_blockchain", "call_rpc_method"}

\* C1: in each gated tool, once the validator has returned an unsafe
\* verdict the invocation has made and makes no service call, and it has
\* returned a response with isError = true whose text carries the verdict's
\* reason and its suggestion.
C1_UnsafeVerdictBlocks ==
    \A i \in Inv :
        Blocked(i) =>
            /\ tool[i] \in GatedTools
            /\ dispatched[i] = << >>
            /\ pc[i] = "done"
            /\ response[i].isError = TRUE
            /\ TextContains(response[i], safetyCheck[i].reason)
            /\ TextContains(response[i], safetyCheck[i].suggestion)

\* two invocations of different gated tools are blocked side by side
C1_Witness ==
    /\ Blocked(1) /\ tool[1] = "search_logs"
    /\ Blocked(2) /\ tool[2] = "call_rpc_method"
    /\ response[1].isError /\ response[2].isError

\* C2: every verdict of the four validators with safe = false has a
\* non-empty reason and a non-empty suggestion, and every verdict with
\* safe = true has neither field.
C2_VerdictShape ==
    Returned =>
        IF result.safe
        THEN DOMAIN result = {"safe"}
        ELSE /\ DOMAIN result = {"safe", "reason", "suggestion"}
             /\ result.reason # ""
             /\ result.suggestion # ""

\* a block query was blocked
C2_Witness ==
    /\ call.fn = "checkBlockQuery"
    /\ Returned
    /\ ~result.safe
    /\ result.suggestion # ""

UnspecializedDangerous ==
    {"eth_getTransactionReceipt", "debug_traceTransaction", "trace_block",
     "trace_transaction"}

ListedDangerous ==
    UnspecializedDangerous
        \cup {"eth_getBlockByNumber", "eth_getBlockByHash", "eth_getLogs"}

\* C4: validateRPCCall returns safe = true for every method name outside
\* the dangerous set, whatever the blockchain, params and config.
C4_NonDangerousAlwaysSafe ==
    (/\ call.fn = "validateRPCCall"
     /\ Returned
     /\ ~(call.method.t = "string" /\ call.method.v \in ListedDangerous))
        => result = SafeResult

\* a method outside the set passed with params that would block a block
\* query
C4_Witness ==
    /\ call.fn = "validateRPCCall"
    /\ call.method = Str("eth_getBlockTransactionCountByNumber")
    /\ call.params = <<Str("latest"), Bool(TRUE)>>
    /\ Returned
    /\ result.safe

\* the call in hand is a block-by-number or block-by-hash query that asks
\* for the transactions
BlockQueryWithTransactions ==
    /\ call.fn = "checkBlockQuery"
    /\ call.method \in {Str("eth_getBlockByNumber"), Str("eth_getBlockByHash")}
    /\ Len(call.params) >= 2
    /\ call.params[2] = Bool(TRUE)

\* C5: a block query with the include-transactions flag true is unsafe for
\* both values of allowBlocksWithTransactions, with the 'disabled' reason
\* when the config flag is false and the '100+ transactions' reason when it
\* is true.
C5_BlockWithTransactionsAlwaysUnsafe ==
    (BlockQueryWithTransactions /\ Returned) =>
        /\ ~result.safe
        /\ result.reason =
              IF call.config.allowBlocksWithTransactions
              THEN "Blocks can contain 100+ transactions, causing session crashes"
              ELSE "Requesting blocks with full transactions is disabled to prevent context overflow"

\* the query was blocked although the config allows blocks with
\* transactions
C5_Witness ==
    /\ BlockQueryWithTransactions
    /\ call.config.allowBlocksWithTransactions
    /\ Returned
    /\ ~result.safe

\* the call in hand is a log query whose params[0] is a filter object
LogQueryWithFilter ==
    /\ call.fn = "checkLogQuery"
    /\ Len(call.params) >= 1
    /\ call.params[1].t = "object"

\* the fields of that filter
FilterFrom == call.params[1].v.fromBlock
FilterTo == call.params[1].v.toBlock
FilterAddress == call.params[1].v.address
FilterTopics == call.params[1].v.topics

\* s is a string of decimal digits
IsDecimalString(s) ==
    /\ Chars[s] # << >>
    /\ \A k \in 1..Len(Chars[s]) : DigitValue(Chars[s][k]) < 10

\* s is 0x followed by hexadecimal digits
IsHexString(s) ==
    /\ Len(Chars[s]) >= 3
    /\ Chars[s][1] = "0"
    /\ Chars[s][2] = "x"
    /\ \A k \in 3..Len(Chars[s]) : DigitValue(Chars[s][k]) < 16

\* the integer a well-formed string bound stands for
IntegerOf(s) ==
    IF IsHexString(s)
    THEN ParseDigits(Tail(Tail(Chars[s])), 16, 0, 0)[1]
    ELSE ParseDigits(Chars[s], 10, 0, 0)[1]

\* b is a bound that is given and is not the 'latest' marker
ConcreteBound(b) ==
    /\ b.t \in {"number", "string", "bigint"}
    /\ b # Str("latest")
    /\ b # Str("")

\* b is a string bound that stands for no integer
UnparseableBound(b) ==
    /\ b.t = "string"
    /\ b.v \notin {"latest", ""}
    /\ ~IsDecimalString(b.v)
    /\ ~IsHexString(b.v)

\* C6: a log filter whose fromBlock and toBlock are both numbers with
\* toBlock - fromBlock > config.maxBlockRange is unsafe, whatever its
\* address and topics, for every fromBlock including block 0.
C6_RangeOverCeilingBlocked ==
    (/\ LogQueryWithFilter
     /\ Returned
     /\ FilterFrom.t = "number"
     /\ FilterTo.t = "number"
     /\ FilterTo.v - FilterFrom.v > call.config.maxBlockRange) => ~result.safe

\* C7: a log filter object that supplies neither address nor topics is
\* unsafe, whether its range check passed, failed or was skipped.
C7_UnrestrictedFilterBlocked ==
    (/\ LogQueryWithFilter
     /\ Returned
     /\ FilterAddress.t = "undefined"
     /\ FilterTopics.t = "undefined") => ~result.safe

\* a filter without address and topics whose range check is skipped
\* (toBlock is 'latest') was blocked as unrestricted
C7_Witness ==
    /\ LogQueryWithFilter
    /\ FilterFrom = Str("0x5")
    /\ FilterTo = Str("latest")
    /\ FilterAddress.t = "undefined"
    /\ FilterTopics.t = "undefined"
    /\ Returned
    /\ ~result.safe
    /\ result.reason = "Unrestricted log queries can return massive amounts of data"

\* C8: when both bounds are concrete and one of them cannot be parsed as an
\* integer, the verdict is unsafe with the 'cannot validate range' reason
\* and the 'explicit numeric bounds' suggestion, address or topics or not.
C8_UnparseableBoundBlocked ==
    (/\ LogQueryWithFilter
     /\ Returned
     /\ ConcreteBound(FilterFrom)
     /\ ConcreteBound(FilterTo)
     /\ (UnparseableBound(FilterFrom) \/ UnparseableBound(FilterTo)))
        => /\ ~result.safe
           /\ result.reason = "Unable to validate block range safety"
           /\ result.suggestion = "Specify explicit numeric block ranges"

\* the verdict of a range over the ceiling
RangeExceeded(range, config) ==
    UnsafeResult("Block range " \o ToString(range) \o " exceeds maximum "
                     \o ToString(config.maxBlockRange),
                 "Reduce the block range or use pagination")

\* C9: string bounds in hex-prefixed or decimal form are read at their
\* integer values ("20" and "0x14" are both twenty) and range = to - from is
\* computed from these values: the query is blocked for its range exactly
\* when that range is over the ceiling, as for the same bounds given as
\* numbers.
C9_StringBoundsReadAsIntegers ==
    (/\ LogQueryWithFilter
     /\ Returned
     /\ FilterFrom.t = "string"
     /\ FilterTo.t = "string"
     /\ (IsDecimalString(FilterFrom.v) \/ IsHexString(FilterFrom.v))
     /\ (IsDecimalString(FilterTo.v) \/ IsHexString(FilterTo.v)))
        => LET range == IntegerOf(FilterTo.v) - IntegerOf(FilterFrom.v)
           IN  IF range > call.config.maxBlockRange
               THEN result = RangeExceeded(range, call.config)
               ELSE \/ result.safe
                    \/ result.suggestion # "Reduce the block range or use pagination"

\* C10: a log query whose params carry no filter object (params[0] absent
\* or null) is unsafe.
C10_MissingFilterBlocked ==
    (/\ call.fn = "checkLogQuery"
     /\ Returned
     /\ At(call.params, 0).t \in {"undefined", "null"}) => ~result.safe

\* b is a bound given as a number or as a decimal or hex-prefixed string
WellFormedBound(b) ==
    \/ b.t = "number"
    \/ b.t = "string" /\ (IsDecimalString(b.v) \/ IsHexString(b.v))

\* the block number a well-formed bound stands for
BoundValue(b) == IF b.t = "number" THEN b.v ELSE IntegerOf(b.v)

\* the filter in hand carries an address or a topics constraint
FilterConstrained ==
    \/ FilterAddress.t = "string" /\ FilterAddress.v # ""
    \/ FilterTopics.t = "array"

\* its range check is skipped: toBlock is absent or 'latest'
FilterRangeSkipped ==
    FilterTo.t \in {"undefined", "null"} \/ FilterTo = Str("latest")

\* its range check passes: both bounds concrete, to - from within the
\* ceiling
FilterRangeWithin ==
    /\ WellFormedBound(FilterFrom)
    /\ WellFormedBound(FilterTo)
    /\ BoundValue(FilterTo) - BoundValue(FilterFrom) <= call.config.maxBlockRange

\* C11: checkLogQuery returns safe = true for every filter that carries an
\* address or topics constraint and whose range check passes (to - from <=
\* config.maxBlockRange, the boundary included) or is skipped (toBlock
\* absent or 'latest').
C11_ConstrainedFilterSafe ==
    (/\ LogQueryWithFilter
     /\ Returned
     /\ FilterConstrained
     /\ (FilterRangeWithin \/ FilterRangeSkipped)) => result = SafeResult

\* the flag of the block query in hand is false or absent
BlockFlagOff ==
    At(call.params, 1).t = "undefined" \/ At(call.params, 1) = Bool(FALSE)

\* C12: checkBlockQuery returns safe = true whenever params[1] is false or
\* absent, for every method and config, and whenever the method is neither
\* eth_getBlockByNumber nor eth_getBlockByHash, whatever params[1] is.
C12_BlockQuerySafeCases ==
    (/\ call.fn = "checkBlockQuery"
     /\ Returned
     /\ \/ BlockFlagOff
        \/ call.method \notin {Str("eth_getBlockByNumber"),
                               Str("eth_getBlockByHash")})
        => result = SafeResult

\* another eth_getBlock method passed with the flag true
C12_Witness ==
    /\ call.fn = "checkBlockQuery"
    /\ call.method = Str("eth_getBlockTransactionCountByNumber")
    /\ At(call.params, 1) = Bool(TRUE)
    /\ call.config.allowBlocksWithTransactions = FALSE
    /\ Returned
    /\ result.safe

\* the call in hand is validateNaturalLanguageQuery and it has returned
QueryValidated == call.fn = "validateNaturalLanguageQuery" /\ Returned

\* the text of the query in hand as the patterns see it
QueryText == ToStr(call.query)

\* the text matches one of the six transaction-history patterns
MatchesHistoryPattern ==
    \/ RegExpTest(<<"get", "transaction", "for", "address">>, QueryText)
    \/ RegExpTest(<<"transaction", "history">>, QueryText)
    \/ RegExpTest(<<"recent", "transactions">>, QueryText)
    \/ RegExpTest(<<"last", "transaction">>, QueryText)
    \/ RegExpTest(<<"latest", "transaction", "on", "address">>, QueryText)
    \/ RegExpTest(<<"address", "transactions">>, QueryText)

\* the text matches one of the five unbounded-scope patterns
MatchesUnboundedPattern ==
    \/ RegExpTest(<<"get all transactions">>, QueryText)
    \/ RegExpTest(<<"list all">>, QueryText)
    \/ RegExpTest(<<"fetch all">>, QueryText)
    \/ RegExpTest(<<"every transaction">>, QueryText)
    \/ RegExpTest(<<"all", "logs">>, QueryText)

\* C13: a query text that matches a transaction-history pattern, in any
\* letter case, is unsafe with the transaction-history reason and the
\* three-point suggestion, also when it matches an unbounded-scope pattern.
C13_HistoryVerdictFirst ==
    (QueryValidated /\ MatchesHistoryPattern) =>
        /\ result.safe = FALSE
        /\ result.reason = "Transaction history queries require fetching multiple blocks with full transaction data, which causes context overflow"
        /\ result.suggestion = "Instead:\n  * Query a specific transaction by hash if you know it\n  * Use a block explorer API (Etherscan, etc.) for transaction history\n  * Ask for current balance or state instead of history"

C13_Witness ==
    /\ QueryValidated
    /\ call.query = Str("show TRANSACTION HISTORY and list all of it")
    /\ MatchesHistoryPattern /\ MatchesUnboundedPattern
    /\ ~result.safe

\* C14: a query text that matches no transaction-history pattern and at
\* least one unbounded-scope pattern is unsafe with the unbounded-data
\* reason, the same verdict whichever of these patterns matches.
C14_UnboundedVerdict ==
    (QueryValidated /\ ~MatchesHistoryPattern /\ MatchesUnboundedPattern) =>
        result = [safe |-> FALSE,
                  reason |-> "Query requests potentially unbounded data",
                  suggestion |-> "Add specific limits, filters, or time ranges to your query"]

C14_Witness ==
    /\ QueryValidated
    /\ call.query = Str("list all logs for this contract")
    /\ ~MatchesHistoryPattern
    /\ result.reason = "Query requests potentially unbounded data"

\* C15: validateNaturalLanguageQuery answers safe exactly for the query texts
\* that match no pattern of either list, under every config.
C15_SafeIffNoPattern ==
    QueryValidated =>
        /\ result.safe <=> (~MatchesHistoryPattern /\ ~MatchesUnboundedPattern)
        /\ result.safe => result = SafeResult

C15_Witness ==
    /\ QueryValidated
    /\ call.query = Str("get the latest height for ethereum")
    /\ call.config # DEFAULT_SAFETY_CONFIG
    /\ result = SafeResult

\* name m is not a listed identifier, and equals one up to letter case or
\* is one followed by more characters
NearMissName(m) ==
    /\ m.t = "string"
    /\ m.v \notin ListedDangerous
    /\ \E d \in ListedDangerous :
          \/ /\ Len(Chars[m.v]) = Len(Chars[d])
             /\ \A k \in 1..Len(Chars[d]) :
                    ToLower(Chars[m.v][k]) = ToLower(Chars[d][k])
          \/ startsWith(m.v, d)

\* C16: isDangerousMethod answers true only for the seven listed
\* identifiers, and validateRPCCall answers safe for a name that differs from
\* a listed identifier in letter case or by extra characters.
C16_ExactCaseSensitiveNames ==
    /\ (call.fn = "isDangerousMethod" /\ result = Bool(TRUE)) =>
           (call.method.t = "string" /\ call.method.v \in ListedDangerous)
    /\ (call.fn = "validateRPCCall" /\ Returned /\ NearMissName(call.method)) =>
           result = SafeResult

C16_Witness ==
    /\ call.fn = "validateRPCCall"
    /\ call.method = Str("ETH_GETLOGS")
    /\ NearMissName(call.method)
    /\ result = SafeResult

\* invocation i has a verdict, and it is safe
PassedGate(i) == "safe" \in DOMAIN safetyCheck[i] /\ safetyCheck[i].safe

\* argument name of invocation i as the handler reads it, and with a default
ArgOf(i, name) == GetOpt(args[i], name)
ArgOrDefault(i, name, default) ==
    IF Truthy(ArgOf(i, name)) THEN ArgOf(i, name) ELSE default

\* the one service call invocation i is to make with its own arguments
\* (for call_rpc_method the service ethereum-mainnet is the one found)
ServiceCallDue(i) ==
    CASE tool[i] = "get_block_details" ->
           [service |-> "getBlockDetails",
            arguments |-> <<ArgOf(i, "blockchain"), ArgOf(i, "blockNumber"),
                            ArgOrDefault(i, "includeTransactions", Bool(FALSE)),
                            ArgOrDefault(i, "network", Str("mainnet"))>>]
      [] tool[i] = "search_logs" ->
           [service |-> "searchLogs",
            arguments |-> <<ArgOf(i, "blockchain"), ArgOf(i, "filter"),
                            ArgOrDefault(i, "network", Str("mainnet"))>>]
      [] tool[i] = "query_blockchain" ->
           [service |-> "executeQuery", arguments |-> <<ArgOf(i, "query")>>]
      [] tool[i] = "call_rpc_method" ->
           [service |-> "callRPCMethod",
            arguments |-> <<Str("ethereum-mainnet"),
                            ArgOf(i, "method"),
                            ArgOrDefault(i, "params", Arr(<< >>))>>]

\* the blockchain service of a call_rpc_method invocation is found
ServiceFound(i) ==
    /\ ArgOf(i, "blockchain") = Str("ethereum")
    /\ ArgOrDefault(i, "network", Str("mainnet")) = Str("mainnet")

\* C17: an invocation of a gated tool with a safe verdict has made exactly
\* one service call, with the values of its own arguments (call_rpc_method
\* when its service is found, and no call otherwise); no service call is
\* made without a safe verdict; and the response built from the service
\* result has isError true exactly when the result's success is false.
C17_SafeVerdictDispatchesUnmodified ==
    \A i \in Inv :
        /\ (PassedGate(i) /\ (tool[i] = "call_rpc_method" => ServiceFound(i))) =>
               dispatched[i] = <<ServiceCallDue(i)>>
        /\ (PassedGate(i) /\ tool[i] = "call_rpc_method" /\ ~ServiceFound(i)) =>
               dispatched[i] = << >>
        /\ dispatched[i] # << >> => PassedGate(i)
        /\ (pc[i] = "done" /\ dispatched[i] # << >>) =>
               \/ /\ response[i].isError = FALSE
                  /\ response[i].content[1].text = <<"{\n  \"success\": true\n}">>
               \/ /\ response[i].isError = TRUE
                  /\ response[i].content[1].text = <<"{\n  \"success\": false\n}">>

C17_Witness ==
    \E i \in Inv :
        /\ tool[i] = "call_rpc_method"
        /\ PassedGate(i) /\ ServiceFound(i)
        /\ ArgOf(i, "method") = Str("eth_getLogs")
        /\ dispatched[i] = <<ServiceCallDue(i)>>
        /\ pc[i] = "done"
        /\ response[i].isError = TRUE

\* invocation i is call_rpc_method for the receipt of one transaction hash
ReceiptLookup(i) ==
    /\ tool[i] = "call_rpc_method"
    /\ ArgOf(i, "method") = Str("eth_getTransactionReceipt")
    /\ ArgOf(i, "params").t = "array"
    /\ Len(ArgOf(i, "params").v) = 1
    /\ ArgOf(i, "params").v[1].t = "string"

\* C18: a call_rpc_method invocation for eth_getTransactionReceipt with one
\* transaction hash, on a blockchain whose service is found, passes the
\* safety gate and is dispatched to the RPC service.
C18_ReceiptLookupDispatched ==
    \A i \in Inv :
        (ReceiptLookup(i) /\ ServiceFound(i)) =>
            /\ PassedGate(i)
            /\ dispatched[i] = <<ServiceCallDue(i)>>

\* the verdict of the validator of invocation i on the arguments of
\* invocation i alone, in a freshly loaded module
SoloVerdict(i) ==
    CASE tool[i] = "get_block_details" ->
           checkBlockQuery(Str("eth_getBlockByNumber"),
               <<ArgOf(i, "blockNumber"),
                 ArgOrDefault(i, "includeTransactions", Bool(FALSE))>>,
               DEFAULT_SAFETY_CONFIG)
      [] tool[i] = "search_logs" ->
           checkLogQuery(<<ArgOf(i, "filter")>>, DEFAULT_SAFETY_CONFIG)
      [] tool[i] = "query_blockchain" ->
           validateNaturalLanguageQuery(ArgOf(i, "query"), DEFAULT_SAFETY_CONFIG)
      [] tool[i] = "call_rpc_method" ->
           validateRPCCall(ArgOf(i, "blockchain"), ArgOf(i, "method"),
               ArgOrDefault(i, "params", Arr(<< >>)).v, DEFAULT_SAFETY_CONFIG)

\* C19: whatever the other invocations do, an invocation holds the verdict
\* its own arguments give when it runs alone; if that verdict is unsafe it
\* has dispatched nothing and its response carries that reason, and if it is
\* safe it has dispatched at most the call its own arguments give.
C19_OutcomeAsWhenAlone ==
    \A i \in Inv :
        tool[i] # "none" =>
            LET solo == SoloVerdict(i)
            IN  /\ safetyCheck[i] = solo
                /\ ~solo.safe =>
                       /\ dispatched[i] = << >>
                       /\ TextContains(response[i], solo.reason)
                /\ solo.safe =>
                       dispatched[i] \in {<< >>, <<ServiceCallDue(i)>>}

C19_Witness ==
    \E i, j \in Inv :
        /\ i # j
        /\ tool[i] = "query_blockchain" /\ tool[j] = "query_blockchain"
        /\ args[i] = args[j]
        /\ ArgOf(i, "query") = Str("What was the last transaction on vitalik.eth?")
        /\ Blocked(i) /\ Blocked(j)
        /\ pc[i] = "done" /\ pc[j] = "done"

\* C20: after any sequence of validator calls, a call with the inputs of an
\* earlier call returns the verdict the earlier call returned, and the
\* match position of every history pattern is where it was at load.
C20_RepeatedCallSameVerdict ==
    /\ (call = probe /\ Returned) => result = firstVerdict
    /\ lastIndex = FreshLastIndex

C20_Witness ==
    /\ call = probe
    /\ probeCalls >= 2
    /\ probe.fn = "validateNaturalLanguageQuery"
    /\ probe.query = Str("What was the last transaction on vitalik.eth?")
    /\ Returned
    /\ result = firstVerdict
    /\ ~result.safe

\* the call in hand is one of the four validators and it is over
ValidatorOver ==
    /\ call.fn \in {"checkBlockQuery", "checkLogQuery", "validateRPCCall",
                    "validateNaturalLanguageQuery"}
    /\ result # Undefined

\* C21: a call of one of the four validators ends with a verdict, never
\* with an exception, and an invocation of a gated tool that has started
\* holds a verdict: it is rejected only after it has dispatched a call.
C21_NoValidatorThrows ==
    /\ ValidatorOver =>
           /\ result # Throw
           /\ "safe" \in DOMAIN result
           /\ result.safe \in BOOLEAN
    /\ \A i \in Inv :
           /\ tool[i] # "none" => "safe" \in DOMAIN safetyCheck[i]
           /\ pc[i] = "rejected" => dispatched[i] # << >>

C21_Witness ==
    /\ ValidatorOver
    /\ call.fn = "checkLogQuery"
    /\ LogQueryWithFilter
    /\ FilterFrom.t = "bigint" /\ FilterTo.t = "number"
    /\ Returned /\ ~result.safe
    /\ result.reason = "Unable to validate block range safety"

\* the size the table of estimateResponseSize gives the call in hand
TableEstimate ==
    CASE call.method \in {Str("eth_getBlockByNumber"), Str("eth_getBlockByHash")} ->
           IF At(call.params, 1) = Bool(TRUE) THEN 500 ELSE 5
      [] call.method = Str("eth_getLogs") -> 200
      [] call.method = Str("eth_getTransactionReceipt") -> 10
      [] call.method = Str("debug_traceTransaction") -> 1000
      [] call.method = Str("trace_block") -> 2000
      [] OTHER -> 5

\* C22: estimateResponseSize returns 500 for the two block getters when
\* params[1] is true and 5 otherwise, the table value for each other method
\* of its table, and 5 for every method that is not in its table.
C22_EstimateIsTableOrFive ==
    (call.fn = "estimateResponseSize" /\ result # Undefined) =>
        result = Num(TableEstimate)

\* C23: a call of a validator leaves the params, the filter and the config
\* it was given as they were, a step of a handler leaves the args of every
\* invocation in flight as they were given, and no step moves the match
\* position of a pattern of the history list.
C23_InputsAndTablesUnchanged ==
    [][/\ call.fn # "none" => call' = call
       /\ lastIndex' = lastIndex
       /\ \A i \in Inv :
              (tool[i] # "none" /\ tool'[i] # "none") => args'[i] = args[i]]_vars

\* a log query whose filter has no toBlock has returned, and the filter
\* still has none
C23_Witness ==
    /\ LogQueryWithFilter
    /\ Returned
    /\ FilterTo = Undefined
    /\ Truthy(FilterFrom)
    /\ call.config = DEFAULT_SAFETY_CONFIG

\* C24: whenever the get_block_details handler has called getBlockDetails,
\* the includeTransactions value it passed is false, whatever the value of
\* args.includeTransactions was.
C24_BlockFetchWithoutTransactions ==
    \A i \in Inv :
        (tool[i] = "get_block_details" /\ dispatched[i] # << >>) =>
            /\ dispatched[i][1].service = "getBlockDetails"
            /\ dispatched[i][1].arguments[3] = Bool(FALSE)

\* C25: a call_rpc_method invocation is validated before its service is
\* looked up: it always holds a verdict, it has called the RPC service
\* exactly when the verdict is safe and the service is found, an unsafe
\* verdict gives the UNSAFE RPC CALL BLOCKED response also for an unknown
\* blockchain, and a safe verdict for an unknown blockchain gives the
\* 'service not found' response.
C25_ValidationBeforeLookup ==
    \A i \in Inv :
        tool[i] = "call_rpc_method" =>
            /\ "safe" \in DOMAIN safetyCheck[i]
            /\ dispatched[i] # << >> <=> (PassedGate(i) /\ ServiceFound(i))
            /\ Blocked(i) =>
                   /\ response[i].content[1].text[1] = "UNSAFE RPC CALL BLOCKED"
                   /\ response[i].isError
            /\ (PassedGate(i) /\ ~ServiceFound(i)) =>
                   /\ response[i].content[1].text[1] = "Blockchain service not found: "
                   /\ response[i].isError
                   /\ pc[i] = "done"

C25_Witness ==
    \E i, j \in Inv :
        /\ tool[i] = "call_rpc_method" /\ tool[j] = "call_rpc_method"
        /\ ~ServiceFound(i) /\ ~ServiceFound(j)
        /\ Blocked(i)
        /\ response[i].content[1].text[1] = "UNSAFE RPC CALL BLOCKED"
        /\ PassedGate(j)
        /\ response[j].content[1].text[1] = "Blockchain service not found: "

\* the configs that have the maxBlockRange of config c
ConfigsWithRangeOf(c) ==
    {[maxBlockRange |-> c.maxBlockRange,
      maxTransactionsPerBlock |-> t,
      maxResponseSizeEstimate |-> s,
      allowBlocksWithTransactions |-> a] :
        t \in {c.maxTransactionsPerBlock, AltTransactionsPerBlock},
        s \in {c.maxResponseSizeEstimate, AltResponseSizeEstimate},
        a \in BOOLEAN}

\* the verdict of the validator of the call in hand, on the inputs of the
\* call in hand, under config c
VerdictUnder(c) ==
    CASE call.fn = "checkBlockQuery" ->
           checkBlockQuery(call.method, call.params, c)
      [] call.fn = "checkLogQuery" ->
           checkLogQuery(call.params, c)
      [] call.fn = "validateRPCCall" ->
           validateRPCCall(call.blockchain, call.method, call.params, c)
      [] call.fn = "validateNaturalLanguageQuery" ->
           validateNaturalLanguageQuery(call.query, c)

\* the two reasons of a blocked block query
BlockQueryReasons ==
    {"Requesting blocks with full transactions is disabled to prevent context overflow",
     "Blocks can contain 100+ transactions, causing session crashes"}

\* C26: under every config that has the maxBlockRange of the config of the
\* call, the validator gives the same inputs the same safe flag, and the
\* same verdict altogether unless it is a blocked block query, whose reason
\* and suggestion follow allowBlocksWithTransactions.
C26_SafeFlagFollowsRangeOnly ==
    (ValidatorOver /\ Returned) =>
        \A c \in ConfigsWithRangeOf(call.config) :
            LET other == VerdictUnder(c)
            IN  /\ other.safe = result.safe
                /\ other # result =>
                       /\ ~result.safe
                       /\ result.reason \in BlockQueryReasons
                       /\ other.reason \in BlockQueryReasons
                       /\ c.allowBlocksWithTransactions
                              # call.config.allowBlocksWithTransactions

C26_Witness ==
    /\ call.fn = "validateRPCCall"
    /\ call.method = Str("eth_getBlockByHash")
    /\ call.config.allowBlocksWithTransactions
    /\ Returned /\ ~result.safe
    /\ result.reason = "Blocks can contain 100+ transactions, causing session crashes"
    /\ VerdictUnder(DEFAULT_SAFETY_CONFIG) # result

====
